---- MODULE Spec2Model ----
(***************************************************************************)
(* bridge_risk_profiler (src/app.py): the risk calculator compute_risk,    *)
(* its clamp helper, the profile catalog PROFILES and the command-line     *)
(* driver main / parse_args.                                               *)
(*                                                                         *)
(* compute_risk works on Python floats, that is IEEE-754 binary64 numbers  *)
(* with round-to-nearest, ties-to-even.  The model keeps that arithmetic:  *)
(* a float is a sign, a 53-bit significand and a binary exponent, and      *)
(* every +, -, *, / and round(x, 3) of the source rounds as the hardware   *)
(* and CPython do.  Significands do not fit TLC's 32-bit integers, so they *)
(* are natural numbers written in base 2^15, least significant limb first. *)
(***************************************************************************)
EXTENDS Integers, Sequences, FiniteSets

\* Python's None
None == << >>

Some(v) == << v >>

(***************************************************************************)
(* Natural numbers of any size: sequences of limbs in base LimbBase, least *)
(* significant first, no leading (high) zero limb; << >> is zero.          *)
(*                                                                         *)
(* The(S) is the element of a one-element set.  Written around a set       *)
(* { e(x) : x \in {a} } it gives e(a) with a computed once, however often  *)
(* e refers to it.  An operation that carries from limb to limb works on   *)
(* the limbs lo .. hi by halves: the first half hands its carry to the     *)
(* second.                                                                 *)
(***************************************************************************)
The(S) == CHOOSE r \in S : TRUE

LimbBase == 2 ^ 15

RECURSIVE BitLenSmall(_)
BitLenSmall(n) == IF n = 0 THEN 0 ELSE 1 + BitLenSmall(n \div 2)

LimbBits == BitLenSmall(LimbBase - 1)

Limb(a, i) == IF i <= Len(a) THEN a[i] ELSE 0

\* a without its leading zero limbs
BigNorm(a) ==
    The({SubSeq(x, 1, The({n \in 0 .. Len(x) :
                              /\ n = 0 \/ x[n] # 0
                              /\ \A k \in n + 1 .. Len(x) : x[k] = 0})) :
            x \in {a}})

BigFromInt(n) ==
    IF n = 0 THEN << >>
    ELSE IF n < LimbBase THEN << n >>
    ELSE IF n < LimbBase * LimbBase THEN << n % LimbBase, n \div LimbBase >>
    ELSE << n % LimbBase, (n \div LimbBase) % LimbBase,
            n \div (LimbBase * LimbBase) >>

BigToInt(a) == Limb(a, 1) + LimbBase * Limb(a, 2)

\* the limbs of a part and the carry it hands on
Part(limbs, c) == [limbs |-> limbs, c |-> c]

\* a part followed by the part its carry went into
Joined(first, second) == Part(first.limbs \o second.limbs, second.c)

\* the limbs of a number and a last carry, as a number
WithCarry(part) ==
    IF part.c = 0 THEN part.limbs ELSE Append(part.limbs, part.c)

\* limbs lo .. hi of a + b + c, c the carry into limb lo
RECURSIVE BigAddFrom(_, _, _, _, _)
BigAddFrom(a, b, lo, hi, c) ==
    IF lo = hi
    THEN The({Part(<< s % LimbBase >>, s \div LimbBase) :
                 s \in {Limb(a, lo) + Limb(b, lo) + c}})
    ELSE The({Joined(first, BigAddFrom(a, b, (lo + hi) \div 2 + 1, hi, first.c)) :
                 first \in {BigAddFrom(a, b, lo, (lo + hi) \div 2, c)}})

BigAddValues(a, b) ==
    IF a = << >> THEN b
    ELSE IF b = << >> THEN a
    ELSE WithCarry(BigAddFrom(a, b, 1, IF Len(a) > Len(b) THEN Len(a) ELSE Len(b), 0))

BigAdd(a, b) == The({BigAddValues(x, y) : x \in {a}, y \in {b}})

\* limbs lo .. hi of a - b - c for a >= b, c the borrow from limb lo
RECURSIVE BigSubFrom(_, _, _, _, _)
BigSubFrom(a, b, lo, hi, c) ==
    IF lo = hi
    THEN The({IF d < 0 THEN Part(<< d + LimbBase >>, 1) ELSE Part(<< d >>, 0) :
                 d \in {a[lo] - Limb(b, lo) - c}})
    ELSE The({Joined(first, BigSubFrom(a, b, (lo + hi) \div 2 + 1, hi, first.c)) :
                 first \in {BigSubFrom(a, b, lo, (lo + hi) \div 2, c)}})

BigSubValues(a, b) ==
    IF a = << >> THEN << >> ELSE BigNorm(BigSubFrom(a, b, 1, Len(a), 0).limbs)

BigSub(a, b) == The({BigSubValues(x, y) : x \in {a}, y \in {b}})

\* -1, 0, 1 as a < b, a = b, a > b: the highest limb that differs decides
BigCmpLimbs(a, b) ==
    IF a = b THEN 0
    ELSE IF The({a[i] < b[i] : i \in {k \in DOMAIN a :
                     a[k] # b[k] /\ \A h \in k + 1 .. Len(a) : a[h] = b[h]}})
    THEN -1
    ELSE 1

BigCmp(a, b) ==
    The({IF Len(x) < Len(y) THEN -1
         ELSE IF Len(x) > Len(y) THEN 1
         ELSE BigCmpLimbs(x, y) : x \in {a}, y \in {b}})

\* limbs lo .. hi of a * k + c for 0 <= k < LimbBase
RECURSIVE BigMulSmallFrom(_, _, _, _, _)
BigMulSmallFrom(a, k, lo, hi, c) ==
    IF lo = hi
    THEN The({Part(<< p % LimbBase >>, p \div LimbBase) : p \in {a[lo] * k + c}})
    ELSE The({Joined(first, BigMulSmallFrom(a, k, (lo + hi) \div 2 + 1, hi, first.c)) :
                 first \in {BigMulSmallFrom(a, k, lo, (lo + hi) \div 2, c)}})

BigMulSmallValues(a, k) ==
    IF k = 0 \/ a = << >> THEN << >>
    ELSE WithCarry(BigMulSmallFrom(a, k, 1, Len(a), 0))

BigMulSmall(a, k) == The({BigMulSmallValues(x, y) : x \in {a}, y \in {k}})

\* a * LimbBase^n
BigShiftLimbs(a, n) ==
    The({IF x = << >> THEN << >> ELSE [i \in 1 .. n |-> 0] \o x : x \in {a}})

\* a * (limbs lo .. hi of b, as a number)
RECURSIVE BigMulFrom(_, _, _, _)
BigMulFrom(a, b, lo, hi) ==
    IF lo = hi THEN BigMulSmall(a, b[lo])
    ELSE BigAdd(BigMulFrom(a, b, lo, (lo + hi) \div 2),
                BigShiftLimbs(BigMulFrom(a, b, (lo + hi) \div 2 + 1, hi),
                              (lo + hi) \div 2 - lo + 1))

BigMulValues(a, b) ==
    IF a = << >> \/ b = << >> THEN << >> ELSE BigMulFrom(a, b, 1, Len(b))

BigMul(a, b) == The({BigMulValues(x, y) : x \in {a}, y \in {b}})

\* the quotient limbs lo .. hi of (r * LimbBase^hi + a) \div d and the
\* remainder, for 0 < d < LimbBase and r < d: long division from limb hi
\* down to limb lo
RECURSIVE BigDivSmallFrom(_, _, _, _, _)
BigDivSmallFrom(a, d, lo, hi, r) ==
    IF lo = hi
    THEN The({Part(<< cur \div d >>, cur % d) : cur \in {r * LimbBase + a[lo]}})
    ELSE The({The({Part(low.limbs \o high.limbs, low.c) :
                      low \in {BigDivSmallFrom(a, d, lo, (lo + hi) \div 2, high.c)}}) :
                 high \in {BigDivSmallFrom(a, d, (lo + hi) \div 2 + 1, hi, r)}})

BigDivSmallValues(a, d) ==
    IF a = << >> THEN [q |-> << >>, r |-> 0]
    ELSE The({[q |-> BigNorm(res.limbs), r |-> res.c] :
                 res \in {BigDivSmallFrom(a, d, 1, Len(a), 0)}})

BigDivSmall(a, d) == The({BigDivSmallValues(x, y) : x \in {a}, y \in {d}})

\* a * 2^n
BigShl(a, n) ==
    BigShiftLimbs(BigMulSmall(a, 2 ^ (n % LimbBits)), n \div LimbBits)

\* a \div 2^n
BigShr(a, n) ==
    The({IF n \div LimbBits >= Len(x) THEN << >>
         ELSE BigDivSmall(SubSeq(x, n \div LimbBits + 1, Len(x)),
                          2 ^ (n % LimbBits)).q : x \in {a}})

\* a % 2^n
BigLow(a, n) ==
    The({IF n \div LimbBits >= Len(x) THEN x
         ELSE BigNorm(SubSeq(x, 1, n \div LimbBits)
                      \o << x[n \div LimbBits + 1] % (2 ^ (n % LimbBits)) >>) :
            x \in {a}})

BitLen(a) ==
    The({IF x = << >> THEN 0
         ELSE LimbBits * (Len(x) - 1) + BitLenSmall(x[Len(x)]) : x \in {a}})

BigOdd(a) == Limb(a, 1) % 2 = 1

(***************************************************************************)
(* Python floats.  A non-zero float is s * m * 2^e with s the sign, m a    *)
(* significand of exactly MantBits bits and e the exponent of its last     *)
(* bit; zero is FZero.  The only operation of compute_risk that can leave  *)
(* the range of floats is the conversion of tvl_rank at line 98, which     *)
(* int_too_large decides; the other numbers stay far from the overflow and *)
(* subnormal ranges, which are not modelled; neither is the sign of zero,  *)
(* which no comparison or output of the program shows.                     *)
(***************************************************************************)
MantBits == 53

\* every float is below 2^FloatEmax in magnitude
FloatEmax == 2 ^ 10

FZero == [s |-> 1, m |-> << >>, e |-> 0]

IsZero(x) == x.m = << >>

\* s * q * 2^E for a rounded significand q of MantBits bits, or of one bit
\* more when rounding up carried out of the top bit
Rounded(s, q, E) ==
    IF BitLen(q) > MantBits THEN [s |-> s, m |-> BigShr(q, 1), e |-> E + 1]
    ELSE [s |-> s, m |-> q, e |-> E]

\* M of more than MantBits bits, rounded to its top MantBits bits q: up
\* when the sh bits dropped are more than half a unit of q (c > 0), or
\* half a unit and the exact value is above M or q is odd
RoundBits(s, M, E, sticky, sh) ==
    The({Rounded(s, IF c > 0 \/ (c = 0 /\ (sticky \/ BigOdd(q)))
                    THEN BigAdd(q, << 1 >>) ELSE q, E + sh) :
            q \in {BigShr(M, sh)},
            c \in {BigCmp(BigLow(M, sh), BigShl(<< 1 >>, sh - 1))}})

RoundValue(s, M, E, sticky) ==
    IF M = << >> THEN FZero
    ELSE IF BitLen(M) <= MantBits
    THEN [s |-> s, m |-> BigShl(M, MantBits - BitLen(M)),
          e |-> E - (MantBits - BitLen(M))]
    ELSE RoundBits(s, M, E, sticky, BitLen(M) - MantBits)

\* The float nearest to s * M * 2^E (M a natural number), ties to even.
\* sticky: the exact value is a little above M * 2^E (a division's
\* remainder), which breaks a tie upwards.
RoundToFloat(s, M, E, sticky) ==
    The({RoundValue(s, m, E, sticky) : m \in {M}})

\* Bits a ratio's numerator is shifted by before the division: enough for
\* the quotient to have more than MantBits + 1 bits
RatioShift == MantBits + LimbBits + 2

\* The float nearest to s * m / d for 0 < d < LimbBase
RoundRatio(s, m, d, E) ==
    The({RoundToFloat(s, qr.q, E - RatioShift, qr.r # 0) :
            qr \in {BigDivSmall(BigShl(m, RatioShift), d)}})

\* The float nearest to n / d for integers |n| < LimbBase^2, 0 < d < LimbBase:
\* a decimal literal such as 0.03 (3/100)
FromRatio(n, d) ==
    IF n = 0 THEN FZero
    ELSE RoundRatio(IF n < 0 THEN -1 ELSE 1, BigFromInt(IF n < 0 THEN -n ELSE n), d, 0)

FromInt(n) == FromRatio(n, 1)

(***************************************************************************)
(* Python integers have no bound: a sign s and a magnitude m in limbs;     *)
(* zero is s = 1, m = << >>.                                               *)
(***************************************************************************)
PyInt(n) == [s |-> IF n < 0 THEN -1 ELSE 1, m |-> BigFromInt(IF n < 0 THEN -n ELSE n)]

\* the value of a Python integer of magnitude below LimbBase^2
SmallInt(a) == a.s * BigToInt(a.m)

\* -1, 0, 1 as a < b, a = b, a > b
IntCmp(a, b) ==
    IF a.s # b.s THEN a.s ELSE a.s * BigCmp(a.m, b.m)

IntLt(a, b) == IntCmp(a, b) < 0
IntLe(a, b) == IntCmp(a, b) <= 0

\* float(n) for an integer n: the nearest float, ties to even
float_of_int(n) == RoundToFloat(n.s, n.m, 0, FALSE)

\* the conversion raises OverflowError (int too large to convert to
\* float) when the nearest float would be 2^FloatEmax or more in magnitude
int_too_large(n) ==
    n.m # << >> /\ float_of_int(n).e + MantBits > FloatEmax

\* x / d for the float of a small positive integer d (50.0): the float
\* nearest to the exact quotient
FDivSmall(x, d) ==
    The({IF IsZero(a) THEN FZero ELSE RoundRatio(a.s, a.m, d, a.e) : a \in {x}})

FNeg(x) == The({IF IsZero(a) THEN a ELSE [a EXCEPT !.s = -a.s] : a \in {x}})

\* -1, 0, 1 as |x| < |y|, |x| = |y|, |x| > |y|
MagCmp(x, y) ==
    IF IsZero(x) THEN (IF IsZero(y) THEN 0 ELSE -1)
    ELSE IF IsZero(y) THEN 1
    ELSE IF x.e < y.e THEN -1
    ELSE IF x.e > y.e THEN 1
    ELSE BigCmp(x.m, y.m)

\* -1, 0, 1 as x < y, x = y, x > y
FCmp(x, y) ==
    The({IF a.s # b.s THEN a.s ELSE a.s * MagCmp(a, b) : a \in {x}, b \in {y}})

FLt(x, y) == FCmp(x, y) < 0
FLe(x, y) == FCmp(x, y) <= 0

\* xs * X * 2^e + ys * Y * 2^e, c comparing X with Y
AddAligned(xs, X, ys, Y, e, c) ==
    IF xs = ys THEN RoundToFloat(xs, BigAdd(X, Y), e, FALSE)
    ELSE IF c = 0 THEN FZero
    ELSE IF c > 0 THEN RoundToFloat(xs, BigSub(X, Y), e, FALSE)
    ELSE RoundToFloat(ys, BigSub(Y, X), e, FALSE)

\* x + y for non-zero x and y, on the lesser exponent e of the two
AddAt(x, y, e) ==
    The({AddAligned(x.s, X, y.s, Y, e, BigCmp(X, Y)) :
            X \in {BigShl(x.m, x.e - e)}, Y \in {BigShl(y.m, y.e - e)}})

\* x + y
FAdd(x, y) ==
    The({IF IsZero(a) THEN b
         ELSE IF IsZero(b) THEN a
         ELSE AddAt(a, b, IF a.e < b.e THEN a.e ELSE b.e) : a \in {x}, b \in {y}})

\* x - y
FSub(x, y) == FAdd(x, FNeg(y))

\* x * y
FMul(x, y) ==
    The({IF IsZero(a) \/ IsZero(b) THEN FZero
         ELSE RoundToFloat(a.s * b.s, BigMul(a.m, b.m), a.e + b.e, FALSE) :
            a \in {x}, b \in {y}})

\* X * 2^e for a natural number X, to the nearest integer, ties to even
NearestInt(X, e) ==
    IF e >= 0 THEN BigToInt(BigShl(X, e))
    ELSE The({BigToInt(q) + (IF c > 0 \/ (c = 0 /\ BigOdd(q)) THEN 1 ELSE 0) :
                 q \in {BigShr(X, -e)},
                 c \in {BigCmp(BigLow(X, -e), BigShl(<< 1 >>, -e - 1))}})

\* The integer nearest to |x| * 10^(3 * k), ties to even (fits an Int for
\* the x and k used here): the digits of x rounded to 3k decimal places.
Scaled(x, k) ==
    The({IF IsZero(a) THEN 0
         ELSE NearestInt(IF k = 1 THEN BigMulSmall(a.m, 1000)
                         ELSE BigMulSmall(BigMulSmall(a.m, 1000), 1000), a.e) :
            a \in {x}})

round_to_2_places(x) ==
    The({FromRatio(a.s * ((Scaled(a, 1) + 5) \div 10), 100) : a \in {x}})

\* Python's round(x, 3): x is converted to the decimal string with 3 digits
\* after the point that is nearest to its exact value (ties to even) and
\* the string is converted back to the nearest float.
round3(x) == The({FromRatio(a.s * Scaled(a, 1), 1000) : a \in {x}})

(***************************************************************************)
(* Python strings: sequences of Unicode code points.  Text spells a string *)
(* of printable ASCII characters; the table names two of them by a word.   *)
(***************************************************************************)
Printable ==
    << " ", "!", "\"", "#", "$", "%", "&", "'", "(", ")", "*", "+",
       ",", "-", ".", "/", "0", "1", "2", "3", "4", "5", "6", "7",
       "8", "9", ":", ";", "<", "=", ">", "?", "@", "A", "B", "C",
       "D", "E", "F", "G", "H", "I", "J", "K", "L", "M", "N", "O",
       "P", "Q", "R", "S", "T", "U", "V", "W", "X", "Y", "Z", "[",
       "backslash", "]", "^", "_", "backtick", "a", "b", "c", "d", "e", "f", "g",
       "h", "i", "j", "k", "l", "m", "n", "o", "p", "q", "r", "s",
       "t", "u", "v", "w", "x", "y", "z", "{", "|", "}", "~" >>

Ord(ch) == 31 + (CHOOSE i \in DOMAIN Printable : Printable[i] = ch)

Text(chars) == [i \in DOMAIN chars |-> Ord(chars[i])]

StartsWith(s, prefix) ==
    Len(prefix) <= Len(s) /\ SubSeq(s, 1, Len(prefix)) = prefix

\* str.split(c, 1): the parts before and after the first c
Has(s, c) == \E i \in DOMAIN s : s[i] = c

FirstAt(s, c) == CHOOSE i \in DOMAIN s : s[i] = c /\ \A j \in 1 .. i - 1 : s[j] # c

Before(s, c) == SubSeq(s, 1, FirstAt(s, c) - 1)

After(s, c) == SubSeq(s, FirstAt(s, c) + 1, Len(s))

\* The zero of each run of ten decimal digits (Unicode category Nd): the
\* characters int() reads as digits and the \d of a regular expression
DigitZeros ==
    { 48, 1632, 1776, 1984, 2406, 2534, 2662, 2790, 2918,
      3046, 3174, 3302, 3430, 3558, 3664, 3792, 3872, 4160,
      4240, 6112, 6160, 6470, 6608, 6784, 6800, 6992, 7088,
      7232, 7248, 42528, 43216, 43264, 43472, 43504, 43600, 44016,
      65296, 66720, 68912, 69734, 69872, 69942, 70096, 70384, 70736,
      70864, 71248, 71360, 71472, 71904, 72016, 72784, 73040, 73120,
      92768, 92864, 93008, 120782, 120792, 120802, 120812, 120822, 123200,
      123632, 125264, 130032 }

IsDigit(c) == \E z \in DigitZeros : z <= c /\ c <= z + 9

DigitOf(c) == c - (CHOOSE z \in DigitZeros : z <= c /\ c <= z + 9)

\* the characters int() strips from both ends of its argument
Whitespace ==
    (9 .. 13) \cup {32, 133, 160, 5760} \cup (8192 .. 8202)
    \cup {8232, 8233, 8239, 8287, 12288}

\* the part of t from its first to its last character that is no whitespace
stripped(t) ==
    LET kept == {i \in DOMAIN t : t[i] \notin Whitespace}
    IN  IF kept = {} THEN << >>
        ELSE SubSeq(t, CHOOSE i \in kept : \A j \in kept : i <= j,
                       CHOOSE i \in kept : \A j \in kept : j <= i)

\* decimal digits, single underscores allowed between two digits
digits_ok(t) ==
    /\ t # << >>
    /\ \A i \in 1 .. Len(t) :
          \/ IsDigit(t[i])
          \/ /\ t[i] = Ord("_")
             /\ 1 < i /\ i < Len(t)
             /\ IsDigit(t[i - 1]) /\ IsDigit(t[i + 1])

\* int() refuses a decimal text of more digits than this (ValueError)
MaxStrDigits == 4300

\* 10^k as a magnitude
RECURSIVE BigPow10(_)
BigPow10(k) ==
    IF k = 0 THEN << 1 >>
    ELSE IF k % 2 = 1 THEN BigMulSmall(BigPow10(k - 1), 10)
    ELSE The({BigMul(h, h) : h \in {BigPow10(k \div 2)}})

\* the magnitude the digits d[lo], ..., d[hi] spell: that of the first
\* half, shifted by the length of the second, plus that of the second
RECURSIVE digits_value(_, _, _)
digits_value(d, lo, hi) ==
    IF lo = hi THEN BigFromInt(DigitOf(d[lo]))
    ELSE BigAdd(BigMul(digits_value(d, lo, (lo + hi) \div 2),
                       BigPow10(hi - (lo + hi) \div 2)),
                digits_value(d, (lo + hi) \div 2 + 1, hi))

\* the digits of a text, its underscores left out
only_digits(t) == SelectSeq(t, IsDigit)

signed_int(negative, m) ==
    [s |-> IF negative /\ m # << >> THEN -1 ELSE 1, m |-> m]

\* Python's int(text): Some(n), or None where int raises ValueError
int_of(text) ==
    LET t == stripped(text)
        signed == t # << >> /\ Head(t) \in {Ord("+"), Ord("-")}
        body == IF signed THEN Tail(t) ELSE t
    IN  IF ~digits_ok(body) \/ Len(only_digits(body)) > MaxStrDigits THEN None
        ELSE Some(signed_int(signed /\ Head(t) = Ord("-"),
                             BigNorm(digits_value(only_digits(body), 1,
                                                  Len(only_digits(body))))))

\* the character of a decimal digit
DigitChar(d) == Ord("0") + d

\* the four decimal digits of a number below 10000, leading zeros included
four_digits(n) ==
    << DigitChar(n \div 1000), DigitChar((n \div 100) % 10),
       DigitChar((n \div 10) % 10), DigitChar(n % 10) >>

\* its digits without the leading zeros
few_digits(n) ==
    SubSeq(four_digits(n),
           IF n >= 1000 THEN 1 ELSE IF n >= 100 THEN 2 ELSE IF n >= 10 THEN 3 ELSE 4,
           4)

\* the decimal digits of a magnitude, four at a time from the right
RECURSIVE digits_of(_)
digits_of(m) ==
    LET qr == BigDivSmall(m, 10000)
    IN  IF qr.q = << >> THEN few_digits(qr.r)
        ELSE digits_of(qr.q) \o four_digits(qr.r)

\* str(n): the decimal text of an integer
str_of(n) == IF n.s < 0 THEN << Ord("-") >> \o digits_of(n.m) ELSE digits_of(n.m)

AllDigits(t) == t # << >> /\ \A i \in 1 .. Len(t) : IsDigit(t[i])

\* -\d+ or -\d*\.\d+ from the first character to the last
minus_digits(t) ==
    /\ Len(t) >= 2 /\ t[1] = Ord("-")
    /\ \/ AllDigits(Tail(t))
       \/ \E k \in 2 .. Len(t) - 1 :
             /\ t[k] = Ord(".")
             /\ \A i \in 2 .. k - 1 : IsDigit(t[i])
             /\ AllDigits(SubSeq(t, k + 1, Len(t)))

\* argparse's pattern for a negative number, ^-\d+$|^-\d*\.\d+$: the $ of
\* a regular expression also matches before a newline that ends the text
negative_number(t) ==
    \/ minus_digits(t)
    \/ t # << >> /\ t[Len(t)] = 10 /\ minus_digits(SubSeq(t, 1, Len(t) - 1))

(***************************************************************************)
(* The profile catalog (lines 8-43).                                       *)
(***************************************************************************)
BridgeProfile(key, name, description, bt, be, bo) ==
    [key |-> key, name |-> name, description |-> description,
     base_technical_risk |-> bt, base_economic_risk |-> be,
     base_operational_risk |-> bo]

Aztec == Text(<< "a", "z", "t", "e", "c" >>)
Zama == Text(<< "z", "a", "m", "a" >>)
Soundness == Text(<< "s", "o", "u", "n", "d", "n", "e", "s", "s" >>)

Catalog ==
    [k \in {Aztec, Zama, Soundness} |->
        CASE k = Aztec ->
               BridgeProfile(Aztec, "Aztec-style Privacy Bridge",
                   "Bridge for zk privacy rollups with encrypted state and batched proofs.",
                   FromRatio(35, 100), FromRatio(40, 100), FromRatio(30, 100))
          [] k = Zama ->
               BridgeProfile(Zama, "Zama-style FHE Bridge",
                   "Bridge interacting with FHE compute layers and encrypted pipelines.",
                   FromRatio(45, 100), FromRatio(42, 100), FromRatio(38, 100))
          [] k = Soundness ->
               BridgeProfile(Soundness, "Soundness-first Research Bridge",
                   "Bridge designed with formal models and soundness-first engineering.",
                   FromRatio(28, 100), FromRatio(32, 100), FromRatio(27, 100))]

(***************************************************************************)
(* clamp (lines 46-47): max(lo, min(hi, x)).  Python's min and max return  *)
(* the first argument unless a later one is strictly smaller / larger.     *)
(***************************************************************************)
c0_0 == FZero
c1_0 == FromInt(1)

pymin(a, b) == IF FLt(b, a) THEN b ELSE a
pymax(a, b) == IF FLt(a, b) THEN b ELSE a

clamp(x, lo, hi) == pymax(lo, pymin(hi, x))

(***************************************************************************)
(* compute_risk (lines 50-136).  v is the triple of running totals t, e, o *)
(***************************************************************************)
c0_02 == FromRatio(2, 100)
c0_03 == FromRatio(3, 100)
c0_04 == FromRatio(4, 100)
c0_05 == FromRatio(5, 100)
c0_06 == FromRatio(6, 100)
c0_07 == FromRatio(7, 100)
c0_08 == FromRatio(8, 100)
c0_45 == FromRatio(45, 100)
c0_35 == FromRatio(35, 100)
c0_20 == FromRatio(20, 100)
c0_25 == FromRatio(25, 100)
c0_65 == FromRatio(65, 100)
c0_80 == FromRatio(80, 100)

\* lines 62-64
base_totals(profile) ==
    [t |-> profile.base_technical_risk,
     e |-> profile.base_economic_risk,
     o |-> profile.base_operational_risk]

\* lines 66-68
adjust_zk(uses_zk, v) ==
    IF uses_zk
    THEN [v EXCEPT !.t = FSub(v.t, c0_03), !.o = FAdd(v.o, c0_02)]
    ELSE v

\* lines 70-72
adjust_fhe(uses_fhe, v) ==
    IF uses_fhe
    THEN [v EXCEPT !.t = FAdd(v.t, c0_04), !.o = FAdd(v.o, c0_03)]
    ELSE v

\* lines 74-76
adjust_light_client(has_light_client, v) ==
    IF has_light_client
    THEN [v EXCEPT !.t = FSub(v.t, c0_06), !.e = FSub(v.e, c0_03)]
    ELSE v

\* lines 78-80
adjust_mpc_signers(has_mpc_signers, v) ==
    IF has_mpc_signers
    THEN [v EXCEPT !.t = FAdd(v.t, c0_04), !.o = FAdd(v.o, c0_05)]
    ELSE v

\* lines 82-84
adjust_timelock(has_timelock, v) ==
    IF has_timelock
    THEN [v EXCEPT !.e = FSub(v.e, c0_05), !.o = FSub(v.o, c0_03)]
    ELSE v

adjust_audits_up(has_audits, v) ==
    IF has_audits
    THEN [v EXCEPT !.t = FAdd(v.t, c0_07), !.o = FSub(v.o, c0_04)]
    ELSE v

\* lines 86-88
adjust_audits(has_audits, v) ==
    IF has_audits
    THEN [v EXCEPT !.t = FSub(v.t, c0_07), !.o = FSub(v.o, c0_04)]
    ELSE v

\* lines 90-92
adjust_formal_specs(has_formal_specs, v) ==
    IF has_formal_specs
    THEN [v EXCEPT !.t = FSub(v.t, c0_08), !.e = FSub(v.e, c0_02)]
    ELSE v

\* lines 94-96
adjust_multi_chain(multi_chain, v) ==
    IF multi_chain
    THEN [v EXCEPT !.t = FAdd(v.t, c0_03), !.o = FAdd(v.o, c0_04)]
    ELSE v

\* line 98: tvl_rank / 50.0 converts the integer to a float, which raises
\* OverflowError for an integer no float is near
raises_at_98(tvl_rank) == int_too_large(tvl_rank)

\* line 98 where it does not raise: tvl_rank / 50.0 is the float division
\* of float(tvl_rank) by 50.0
tvl_factor_of(tvl_rank) ==
    clamp(FDivSmall(float_of_int(tvl_rank), 50), c0_0, c1_0)

\* line 99
add_tvl(v, tvl_rank) ==
    [v EXCEPT !.e = FAdd(v.e, FMul(c0_08, tvl_factor_of(tvl_rank)))]

\* line 105, from the clamped t, e, o
overall_of(v) ==
    clamp(FAdd(FAdd(FMul(c0_45, v.t), FMul(c0_35, v.e)), FMul(c0_20, v.o)),
          c0_0, c1_0)

label_of_inclusive(overall) ==
    IF FLe(overall, c0_25) THEN "very_low"
    ELSE IF FLe(overall, c0_45) THEN "low"
    ELSE IF FLe(overall, c0_65) THEN "moderate"
    ELSE IF FLe(overall, c0_80) THEN "high"
    ELSE "very_high"

\* lines 107-116
label_of(overall) ==
    IF FLt(overall, c0_25) THEN "very_low"
    ELSE IF FLt(overall, c0_45) THEN "low"
    ELSE IF FLt(overall, c0_65) THEN "moderate"
    ELSE IF FLt(overall, c0_80) THEN "high"
    ELSE "very_high"

\* The flags of a call, as a record
FlagNames == {"uses_zk", "uses_fhe", "has_light_client", "has_mpc_signers",
              "has_timelock", "has_audits", "has_formal_specs", "multi_chain"}
Flags == [FlagNames -> BOOLEAN]

\* lines 66-99: the running totals after every adjustment, each statement
\* run on the totals the one before it left
adjusted(v0, f, tvl_rank) ==
    The({add_tvl(v8, tvl_rank) :
        v8 \in {adjust_multi_chain(f.multi_chain, v7) :
        v7 \in {adjust_formal_specs(f.has_formal_specs, v6) :
        v6 \in {adjust_audits(f.has_audits, v5) :
        v5 \in {adjust_timelock(f.has_timelock, v4) :
        v4 \in {adjust_mpc_signers(f.has_mpc_signers, v3) :
        v3 \in {adjust_light_client(f.has_light_client, v2) :
        v2 \in {adjust_fhe(f.uses_fhe, v1) :
        v1 \in {adjust_zk(f.uses_zk, v0)}}}}}}}}})

\* lines 101-103
clamped(v) ==
    [t |-> clamp(v.t, c0_0, c1_0), e |-> clamp(v.e, c0_0, c1_0),
     o |-> clamp(v.o, c0_0, c1_0)]

\* lines 105-116 for the clamped totals c; raw is what lines 101-103 read
scored(raw, c, overall) ==
    [raw |-> raw, t |-> c.t, e |-> c.e, o |-> c.o,
     overall |-> overall, label |-> label_of(overall)]

clamp_and_score(c, raw) ==
    The({scored(raw, c, overall) : overall \in {overall_of(c)}})

\* lines 66-116 from the totals v0 read at lines 62-64: the function's
\* local variables when it reaches its return statement (raw: t, e, o as
\* they are before lines 101-103 clamp them)
finish(raw) == The({clamp_and_score(c, raw) : c \in {clamped(raw)}})

locals_from(v0, f, tvl_rank) ==
    The({finish(raw) : raw \in {adjusted(v0, f, tvl_rank)}})

\* lines 118-136
return_dict(profile, f, tvl_rank, L) ==
    [profile |-> profile.key, profileName |-> profile.name,
     description |-> profile.description,
     usesZk |-> f.uses_zk, usesFhe |-> f.uses_fhe,
     hasLightClient |-> f.has_light_client,
     hasMpcSigners |-> f.has_mpc_signers,
     hasTimelock |-> f.has_timelock, hasAudits |-> f.has_audits,
     hasFormalSpecs |-> f.has_formal_specs, multiChain |-> f.multi_chain,
     tvlRank |-> tvl_rank,
     technicalRisk |-> round3(L.t), economicRisk |-> round3(L.e),
     operationalRisk |-> round3(L.o), overallRisk |-> round3(L.overall),
     riskLabel |-> L.label]

\* an exception leaving a function, in place of its return value
Raised(exception) == [raised |-> exception]

IsRaised(r) == "raised" \in DOMAIN r

\* the locals at the return statement, None when line 98 raised
frame_of(v0, f, tvl_rank) ==
    IF raises_at_98(tvl_rank) THEN None ELSE locals_from(v0, f, tvl_rank)

compute_risk(profile, f, tvl_rank) ==
    IF raises_at_98(tvl_rank) THEN Raised("OverflowError")
    ELSE The({return_dict(profile, f, tvl_rank, L) :
                 L \in {locals_from(base_totals(profile), f, tvl_rank)}})

(***************************************************************************)
(* The inputs explored.  Ranks run from -LowRank to SmallRank, take the    *)
(* default, run from just below the rank at which tvl_rank / 50.0 reaches  *)
(* 1 up to MaxRank, and stand on both sides of the least integer no float  *)
(* is near.  Profiles built by a direct caller of compute_risk have base   *)
(* risks on a grid of hundredths within [0, 1].                            *)
(***************************************************************************)
LowRank == 1
SmallRank == 2
MaxRank == 51
DefaultRank == 25
SatRank == 50

SmallRanks == (-LowRank .. SmallRank) \cup {DefaultRank} \cup (SatRank - 1 .. MaxRank)

\* 2^FloatEmax - 2^(FloatEmax - MantBits - 1): the least integer whose
\* conversion to a float raises OverflowError
OverflowRank ==
    [s |-> 1, m |-> BigSub(BigShl(<< 1 >>, FloatEmax),
                           BigShl(<< 1 >>, FloatEmax - MantBits - 1))]

IntNeg(a) == signed_int(a.s > 0, a.m)

HugeRanks ==
    {OverflowRank, IntNeg(OverflowRank),
     [s |-> 1, m |-> BigSub(OverflowRank.m, << 1 >>)]}

Ranks == {PyInt(r) : r \in SmallRanks} \cup HugeRanks

\* Base risks of the profiles a caller builds, in units of 1/RiskScale:
\* 0, 1, the four label thresholds, and the values next to 0 and to 1 that
\* round(x, 3) takes to 0.0 and to 1.0
RiskScale == 10000

DiagonalGrid == {0, 4, 2500, 4500, 6500, 8000, 9996, 10000}

CustomProfile(bt, be, bo) ==
    BridgeProfile(Text(<< "c", "u", "s", "t", "o", "m" >>), "Custom bridge", "Profile built by the caller.",
                  FromRatio(bt, RiskScale), FromRatio(be, RiskScale),
                  FromRatio(bo, RiskScale))

CustomProfiles ==
    {CustomProfile(g, g, g) : g \in DiagonalGrid}
    \cup {CustomProfile(0, RiskScale, RiskScale)}

\* The flags of a call that are all off, and a few settings of them
AllOff == [n \in FlagNames |-> FALSE]

FewFlags == {AllOff, [AllOff EXCEPT !.has_audits = TRUE],
             [AllOff EXCEPT !.uses_fhe = TRUE]}

(***************************************************************************)
(* The parser parse_args builds (lines 140-206): every option string and   *)
(* the attribute of the Namespace its action sets.  -h and --help come     *)
(* from add_help, which line 140 leaves on.                                *)
(***************************************************************************)
Option(string, dest) == [string |-> string, dest |-> dest]

StyleOption == Text(<< "-", "-", "s", "t", "y", "l", "e" >>)
TvlRankOption == Text(<< "-", "-", "t", "v", "l", "-", "r", "a", "n", "k" >>)
HelpOption == Text(<< "-", "h" >>)
DashDash == Text(<< "-", "-" >>)

SwitchOptions ==
    [zk |-> Text(<< "-", "-", "z", "k" >>),
     fhe |-> Text(<< "-", "-", "f", "h", "e" >>),
     light_client |-> Text(<< "-", "-", "l", "i", "g", "h", "t", "-", "c", "l", "i", "e", "n", "t" >>),
     mpc_signers |-> Text(<< "-", "-", "m", "p", "c", "-", "s", "i", "g", "n", "e", "r", "s" >>),
     timelock |-> Text(<< "-", "-", "t", "i", "m", "e", "l", "o", "c", "k" >>),
     audits |-> Text(<< "-", "-", "a", "u", "d", "i", "t", "s" >>),
     formal_specs |-> Text(<< "-", "-", "f", "o", "r", "m", "a", "l", "-", "s", "p", "e", "c", "s" >>),
     multi_chain |-> Text(<< "-", "-", "m", "u", "l", "t", "i", "-", "c", "h", "a", "i", "n" >>),
     json |-> Text(<< "-", "-", "j", "s", "o", "n" >>)]

\* the store_true switches, in the order of their add_argument calls
SwitchOrder ==
    << "zk", "fhe", "light_client", "mpc_signers", "timelock", "audits",
       "formal_specs", "multi_chain", "json" >>

SwitchDests == DOMAIN SwitchOptions

ParserOptions ==
    {Option(HelpOption, "help"), Option(Text(<< "-", "-", "h", "e", "l", "p" >>), "help"),
     Option(StyleOption, "style"), Option(TvlRankOption, "tvl_rank")}
    \cup {Option(SwitchOptions[d], d) : d \in SwitchDests}

\* nargs: --style and --tvl-rank take one argument, the others none
takes_value(dest) == dest \in {"style", "tvl_rank"}

is_option_string(s) == \E o \in ParserOptions : o.string = s

dest_of(s) == (CHOOSE o \in ParserOptions : o.string = s).dest

\* The values of the attributes style and tvl_rank: a string, an integer,
\* or the empty list [] that argparse stores for --style=-- and
\* --tvl-rank=--
Str(w) == [str |-> w]

EmptyList == [list |-> << >>]

IsList(v) == "list" \in DOMAIN v

\* the Namespace before any option is read: the defaults of lines 147-206
Defaults ==
    [style |-> Str(Aztec), zk |-> FALSE, fhe |-> FALSE, light_client |-> FALSE,
     mpc_signers |-> FALSE, timelock |-> FALSE, audits |-> FALSE,
     formal_specs |-> FALSE, multi_chain |-> FALSE,
     tvl_rank |-> PyInt(DefaultRank), json |-> FALSE]

(***************************************************************************)
(* The command lines explored.  A plain command line gives --style and     *)
(* --tvl-rank at most once each, in either order, then some of the nine    *)
(* switches: any of them after a few of the option lists, a few of them    *)
(* after the others.  A special line holds up to two pieces, one at least  *)
(* of them special: a help option, an option argparse cannot place, a      *)
(* value it refuses or reads in an unusual way.  A long line gives a rank  *)
(* of hundreds of digits.                                                  *)
(***************************************************************************)
Wormhole == Text(<< "w", "o", "r", "m", "h", "o", "l", "e" >>)

StyleInputs == DOMAIN Catalog \cup {Wormhole}

CliRanks == (-LowRank .. LowRank) \cup (SatRank .. MaxRank)

StylePieces == {<< StyleOption, k >> : k \in StyleInputs}

RankPieces == {<< TvlRankOption, str_of(PyInt(r)) >> : r \in CliRanks}

PlainOptionLists ==
    {<< >>} \cup StylePieces \cup RankPieces
    \cup {s \o r : s \in StylePieces, r \in RankPieces}
    \cup {r \o s : s \in StylePieces, r \in RankPieces}

switch_words(on) ==
    LET chosen == SelectSeq(SwitchOrder, LAMBDA d : d \in on)
    IN  [i \in DOMAIN chosen |-> SwitchOptions[chosen[i]]]

WideOptionLists ==
    {<< >>} \cup StylePieces
    \cup {<< TvlRankOption, str_of(PyInt(0)) >>}
    \cup {<< StyleOption, Zama, TvlRankOption, str_of(PyInt(-LowRank)) >>}

FewSwitches == {{}, {"audits", "json"}, SwitchDests}

PlainLines ==
    {o \o switch_words(on) : o \in WideOptionLists, on \in SUBSET SwitchDests}
    \cup {o \o switch_words(on) : o \in PlainOptionLists, on \in FewSwitches}

\* the decimal text of the least rank that overflows, and a text of one
\* digit more than int() accepts
OverflowText == str_of(OverflowRank)

LongText == [i \in 1 .. MaxStrDigits + 1 |-> Ord("1")]

SpecialPieces ==
    { << HelpOption >>,
      << Text(<< "-", "-", "h", "e", "l", "p" >>) >>,
      << Text(<< "-", "h", "h" >>) >>,
      << Text(<< "-", "h", "x" >>) >>,
      << Text(<< "-", "-", "z", "k", "=", "1" >>) >>,
      << Text(<< "-", "-", "t" >>) >>,
      << Text(<< "-", "-", "b", "o", "g", "u", "s" >>) >>,
      << Text(<< "e", "x", "t", "r", "a" >>) >>,
      << DashDash >>,
      << TvlRankOption >>,
      << Text(<< "-", "-", "t", "v", "l", "-", "r", "a", "n", "k", "=", "-", "1", "_", "0" >>) >>,
      << Text(<< "-", "-", "t", "v", "l", "-", "r", "a", "n", "k", "=", "-", "-" >>) >>,
      << Text(<< "-", "-", "s", "t", "y", "l", "e", "=", "-", "-" >>) >>,
      << Text(<< "-", "-", "s", "t", "y", "l", "e", "=", "s", "o", "u", "n", "d", "n", "e", "s", "s" >>) >>,
      << Text(<< "-", "-", "s", "t", "y" >>), Zama >>,
      << TvlRankOption, Text(<< "a", "b", "c" >>) >>,
      << TvlRankOption, Text(<< "2", ".", "5" >>) >>,
      << TvlRankOption, Text(<< "-", "x" >>) >>,
      << TvlRankOption, Text(<< "-", "1" >>) \o << 10 >> >>,
      << TvlRankOption, << 12 >> \o Text(<< "5" >>) \o << 11 >> >>,
      << TvlRankOption, << 1635 >> >>,
      << TvlRankOption, Text(<< "-" >>) \o << 1635 >> >>,
      << TvlRankOption, << 32, 1632, 95, 1632 >> >>,
      << Text(<< "-", "-", "t", "v", "l" >>), Text(<< "-", "0" >>) >> }

LongPieces ==
    { << TvlRankOption, OverflowText >>,
      << TvlRankOption, str_of([s |-> 1, m |-> BigSub(OverflowRank.m, << 1 >>)]) >>,
      << TvlRankOption, Text(<< "-" >>) \o OverflowText >>,
      << TvlRankOption, LongText >>,
      << TvlRankOption, SubSeq(LongText, 2, Len(LongText)) >> }

OtherPieces ==
    StylePieces \cup {<< TvlRankOption, str_of(PyInt(r)) >> : r \in {-LowRank, SatRank}}

SpecialLines ==
    LET lists == SpecialPieces
                 \cup {a \o b : a \in SpecialPieces, b \in SpecialPieces \cup OtherPieces}
                 \cup {b \o a : a \in SpecialPieces, b \in OtherPieces}
    IN  {o \o switch_words(on) : o \in lists, on \in {{}, {"audits", "json"}}}

LongLines ==
    LongPieces \cup {<< StyleOption, Zama >> \o a : a \in LongPieces}

CommandLines == PlainLines \cup SpecialLines \cup LongLines

VARIABLES
    PROFILES,   \* the module-level catalog: key -> BridgeProfile object
    argv,       \* the command line the script was started with: its words
    pc,         \* "start", "parsed", "computed", "exited": main's position;
                \* "lib": the module was imported, main does not run
    args,       \* the Namespace parse_args returned
    exit_code,  \* Some(status) once the process has exited
    stdout,     \* what was printed on standard output so far
    stdout_encoding, \* sys.stdout.encoding, which the environment sets
    invoked,    \* how many times main has invoked compute_risk
    call,       \* the arguments of the compute_risk invocation
    frame,      \* its local variables at its return statement
    result      \* the dict it returned, or the exception it raised

vars == << PROFILES, argv, pc, args, exit_code, stdout, stdout_encoding,
           invoked, call, frame, result >>

\* The encodings of standard output explored: that of a UTF-8 locale, and
\* that of PYTHONIOENCODING=ascii or of the C locale
StdoutEncodings == {"utf-8", "ascii"}

\* str.encode: UTF-8 encodes every character, ASCII those below 128
encodes(encoding, ch) == encoding = "utf-8" \/ ch < 128

InitCommon ==
    /\ PROFILES = Catalog
    /\ argv = None
    /\ args = None
    /\ exit_code = None
    /\ stdout = << >>
    /\ invoked = 0
    /\ frame = None
    /\ result = None

(***************************************************************************)
(* The command-line program: main (lines 238-258), run as a script.        *)
(***************************************************************************)
Init ==
    /\ InitCommon
    /\ pc = "start"
    /\ call = None
    /\ stdout_encoding \in StdoutEncodings

\* line 149: choices=list(PROFILES.keys())
style_choices == DOMAIN PROFILES

\* The outcome of parse_args: the Namespace it returns, or the exit of
\* the process with what it printed on standard output before
Returns(ns) == [exit |-> None, out |-> << >>, ns |-> ns]

Exits(status, out) == [exit |-> Some(status), out |-> out, ns |-> None]

\* print_help: the usage text
Usage == [format |-> "usage", result |-> None]

\* parser.error: a message on standard error, exit status 2
Error == Exits(2, << >>)

(***************************************************************************)
(* parser.parse_args() (line 207) on the words of the command line.        *)
(* argparse first classifies every word: the first -- and what follows it  *)
(* are arguments; before it a word is an option (O) or an argument (A).    *)
(***************************************************************************)
Classified(kind, dest, string, explicit) ==
    [kind |-> kind, dest |-> dest, string |-> string, explicit |-> explicit]

Argument == Classified("A", "", << >>, None)

Separator == Classified("-", "", << >>, None)

Ambiguous == Classified("ambiguous", "", << >>, None)

OptionTuple(dest, string, explicit) == Classified("O", dest, string, explicit)

\* The options a word may abbreviate.  A word of two dashes is split at
\* its first = and matches every option string its first part begins; a
\* word of one dash matches the one-letter option it begins, the rest
\* being that option's argument, and every option string it begins.
get_option_tuples(w) ==
    IF w[2] = Ord("-")
    THEN LET eq == Has(w, Ord("="))
             prefix == IF eq THEN Before(w, Ord("=")) ELSE w
             explicit == IF eq THEN Some(After(w, Ord("="))) ELSE None
         IN  {OptionTuple(o.dest, o.string, explicit) :
                 o \in {p \in ParserOptions : StartsWith(p.string, prefix)}}
    ELSE LET short == SubSeq(w, 1, 2)
         IN  {OptionTuple(o.dest, o.string, Some(SubSeq(w, 3, Len(w)))) :
                 o \in {p \in ParserOptions : p.string = short}}
             \cup {OptionTuple(o.dest, o.string, None) :
                      o \in {p \in ParserOptions :
                                p.string # short /\ StartsWith(p.string, w)}}

\* the one option a word abbreviates, an error when it abbreviates several;
\* otherwise an argument if it looks like a negative number or holds a
\* space, and an option the parser does not know if not
abbreviation(w, tuples) ==
    IF Cardinality(tuples) > 1 THEN Ambiguous
    ELSE IF Cardinality(tuples) = 1 THEN CHOOSE t \in tuples : TRUE
    ELSE IF negative_number(w) THEN Argument
    ELSE IF Has(w, Ord(" ")) THEN Argument
    ELSE OptionTuple("unknown", w, None)

\* _parse_optional
parse_optional(w) ==
    IF w = << >> THEN Argument
    ELSE IF w[1] # Ord("-") THEN Argument
    ELSE IF is_option_string(w) THEN OptionTuple(dest_of(w), w, None)
    ELSE IF Len(w) = 1 THEN Argument
    ELSE IF Has(w, Ord("=")) /\ is_option_string(Before(w, Ord("=")))
    THEN OptionTuple(dest_of(Before(w, Ord("="))), Before(w, Ord("=")),
                     Some(After(w, Ord("="))))
    ELSE abbreviation(w, get_option_tuples(w))

FirstDashDash(line) ==
    IF Has(line, DashDash) THEN FirstAt(line, DashDash) ELSE Len(line) + 1

classify(line) ==
    [i \in DOMAIN line |->
        IF i < FirstDashDash(line) THEN parse_optional(line[i])
        ELSE IF i = FirstDashDash(line) THEN Separator
        ELSE Argument]

\* What an option on the command line comes to: the actions to take, the
\* argument strings of the last of them and the index parsing goes on at
Consumed(actions, strings, stop) ==
    [error |-> FALSE, actions |-> actions, strings |-> strings, stop |-> stop]

Refused == [error |-> TRUE, actions |-> << >>, strings |-> << >>, stop |-> 0]

\* consume_optional for the option at index i.  An argument attached to
\* the option (explicit) is its value if it takes one; attached to a
\* one-letter option that takes none it is read as further one-letter
\* options; otherwise it is an error.  Without one, an option that takes a
\* value takes the next word, which must be an argument.
RECURSIVE consume_optional(_, _, _, _, _, _, _)
consume_optional(line, cls, i, dest, string, explicit, taken) ==
    IF explicit # None
    THEN IF ~takes_value(dest) /\ string[2] # Ord("-") /\ explicit[1] # << >>
         THEN IF is_option_string(<< string[1], explicit[1][1] >>)
              THEN consume_optional(line, cls, i,
                       dest_of(<< string[1], explicit[1][1] >>),
                       << string[1], explicit[1][1] >>,
                       IF Len(explicit[1]) > 1 THEN Some(Tail(explicit[1])) ELSE None,
                       Append(taken, dest))
              ELSE Refused
         ELSE IF takes_value(dest)
         THEN Consumed(Append(taken, dest), << explicit[1] >>, i + 1)
         ELSE Refused
    ELSE IF takes_value(dest)
    THEN IF i < Len(line) /\ cls[i + 1].kind = "A"
         THEN Consumed(Append(taken, dest), << line[i + 1] >>, i + 2)
         ELSE Refused
    ELSE Consumed(Append(taken, dest), << >>, i + 1)

\* _get_values: the first -- among the argument strings is dropped
without_dashdash(strings) ==
    IF Has(strings, DashDash)
    THEN SubSeq(strings, 1, FirstAt(strings, DashDash) - 1)
         \o SubSeq(strings, FirstAt(strings, DashDash) + 1, Len(strings))
    ELSE strings

\* the value stored for a --tvl-rank argument: type=int (line 195)
store_int(ns, n) ==
    IF n = None THEN Error ELSE Returns([ns EXCEPT !.tvl_rank = n[1]])

\* the value stored for the argument strings of --style or --tvl-rank: no
\* string is left when the one given was --, and the value is an empty list
store_value(dest, values, ns) ==
    IF values = << >> THEN Returns([ns EXCEPT ![dest] = EmptyList])
    ELSE IF dest = "style"
    THEN IF values[1] \in style_choices
         THEN Returns([ns EXCEPT !.style = Str(values[1])])
         ELSE Error
    ELSE store_int(ns, int_of(values[1]))

\* take_action: the help action prints the usage text and exits with
\* status 0; a switch stores True; --style and --tvl-rank store their value
take_action(dest, strings, ns) ==
    IF dest = "help" THEN Exits(0, << Usage >>)
    ELSE IF dest \in SwitchDests THEN Returns([ns EXCEPT ![dest] = TRUE])
    ELSE store_value(dest, without_dashdash(strings), ns)

RECURSIVE take_actions(_, _, _)
take_actions(dests, strings, ns) ==
    IF Len(dests) = 1 THEN take_action(dests[1], strings, ns)
    ELSE IF take_action(dests[1], << >>, ns).exit # None
    THEN take_action(dests[1], << >>, ns)
    ELSE take_actions(Tail(dests), strings, take_action(dests[1], << >>, ns).ns)

\* The loop of _parse_known_args from index i on: words that are no known
\* option are set aside (extras); parse_args makes them an error once all
\* the options are read
RECURSIVE consume(_, _, _, _, _)

consume_after(line, cls, c, r, extras) ==
    IF r.exit # None THEN r ELSE consume(line, cls, c.stop, r.ns, extras)

consume_option(line, cls, c, ns, extras) ==
    IF c.error THEN Error
    ELSE consume_after(line, cls, c, take_actions(c.actions, c.strings, ns), extras)

consume(line, cls, i, ns, extras) ==
    IF i > Len(line) THEN (IF extras THEN Error ELSE Returns(ns))
    ELSE IF cls[i].kind # "O" \/ cls[i].dest = "unknown"
    THEN consume(line, cls, i + 1, ns, TRUE)
    ELSE consume_option(line, cls,
             consume_optional(line, cls, i, cls[i].dest, cls[i].string,
                              cls[i].explicit, << >>),
             ns, extras)

parse_classified(line, cls) ==
    IF \E i \in DOMAIN cls : cls[i].kind = "ambiguous" THEN Error
    ELSE consume(line, cls, 1, Defaults, FALSE)

\* parse_args (lines 139-207) on the words of a command line
parse_args(line) == parse_classified(line, classify(line))

\* line 239: the process starts with a command line and parses it
main_parse_args ==
    /\ pc = "start"
    /\ \E line \in CommandLines :
          \E r \in {parse_args(line)} :
              /\ argv' = line
              /\ stdout' = stdout \o r.out
              /\ IF r.exit # None
                 THEN /\ pc' = "exited"
                      /\ exit_code' = r.exit
                      /\ args' = args
                 ELSE /\ pc' = "parsed"
                      /\ args' = r.ns
                      /\ exit_code' = exit_code
    /\ UNCHANGED << PROFILES, stdout_encoding, invoked, call, frame, result >>

\* lines 244-251: the flags main passes on
args_flags(ns) ==
    [uses_zk |-> ns.zk, uses_fhe |-> ns.fhe,
     has_light_client |-> ns.light_client,
     has_mpc_signers |-> ns.mpc_signers, has_timelock |-> ns.timelock,
     has_audits |-> ns.audits, has_formal_specs |-> ns.formal_specs,
     multi_chain |-> ns.multi_chain]

rank_as_given(tvl_rank) == tvl_rank

\* line 252: max(1, args.tvl_rank)
rank_passed(tvl_rank) == IF IntLt(PyInt(1), tvl_rank) THEN tvl_rank ELSE PyInt(1)

\* An exception that leaves main: the interpreter prints the traceback on
\* standard error and exits with status 1
main_raises ==
    /\ pc' = "exited"
    /\ exit_code' = Some(1)

\* lines 240-253.  Before the call: PROFILES[args.style] raises TypeError
\* for the unhashable [] and KeyError for a key the catalog does not hold;
\* max(1, []) raises TypeError.  The call itself raises at line 98 for a
\* rank no float is near.
main_compute_risk ==
    /\ pc = "parsed"
    /\ IF IsList(args.style) \/ IsList(args.tvl_rank)
       THEN main_raises /\ UNCHANGED << invoked, call, frame, result >>
       ELSE IF args.style.str \notin DOMAIN PROFILES
       THEN main_raises /\ UNCHANGED << invoked, call, frame, result >>
       ELSE \E profile \in {PROFILES[args.style.str]},
               f \in {args_flags(args)},
               r \in {rank_passed(args.tvl_rank)} :
                /\ invoked' = invoked + 1
                /\ call' = [profile |-> profile, flags |-> f, tvl_rank |-> r]
                /\ frame' = frame_of(base_totals(profile), f, r)
                /\ result' = compute_risk(profile, f, r)
                /\ IF raises_at_98(r)
                   THEN main_raises
                   ELSE pc' = "computed" /\ exit_code' = exit_code
    /\ UNCHANGED << PROFILES, argv, args, stdout, stdout_encoding >>

\* line 211: the first character print_human prints, U+1F309
BridgeEmoji == 127753

\* print (lines 211-235) raises UnicodeEncodeError when standard output
\* cannot encode what is printed.  Of all that the program prints only
\* the first line of print_human holds a character that is not ASCII:
\* json.dumps (line 256) escapes whatever is not
print_raises(ns, encoding) == ~ns.json /\ ~encodes(encoding, BridgeEmoji)

\* lines 255-258: json.dumps or print_human (lines 210-235), then the
\* script ends with status 0; when print_human's first print raises,
\* nothing is printed and the exception leaves main
main_print ==
    /\ pc = "computed"
    /\ IF print_raises(args, stdout_encoding)
       THEN /\ main_raises
            /\ stdout' = stdout
       ELSE /\ stdout' = Append(stdout, [format |-> IF args.json THEN "json" ELSE "human",
                                         result |-> result])
            /\ pc' = "exited"
            /\ exit_code' = Some(0)
    /\ UNCHANGED << PROFILES, argv, args, stdout_encoding, invoked, call, frame, result >>

Next == main_parse_args \/ main_compute_risk \/ main_print

Spec == Init /\ [][Next]_vars

(***************************************************************************)
(* compute_risk called directly (the module imported).  The caller holds   *)
(* the arguments of its call: any catalog or caller-built profile, any     *)
(* flags, any rank.                                                        *)
(***************************************************************************)
CatalogProfiles == {Catalog[k] : k \in DOMAIN Catalog}

CallerProfiles == CatalogProfiles \cup CustomProfiles

CalcInit ==
    /\ InitCommon
    /\ pc = "lib"
    /\ stdout_encoding = "utf-8"
    /\ \/ call \in [profile : CatalogProfiles, flags : Flags,
                    tvl_rank : {PyInt(r) : r \in SmallRanks}]
       \/ call \in [profile : CustomProfiles, flags : Flags,
                    tvl_rank : {PyInt(0), PyInt(DefaultRank), PyInt(SatRank)}]
       \/ call \in [profile : CallerProfiles, flags : FewFlags,
                    tvl_rank : HugeRanks]

direct_call ==
    /\ pc = "lib"
    /\ result = None
    /\ frame' = frame_of(base_totals(call.profile), call.flags, call.tvl_rank)
    /\ result' = compute_risk(call.profile, call.flags, call.tvl_rank)
    /\ UNCHANGED << PROFILES, argv, pc, args, exit_code, stdout, stdout_encoding,
                   invoked, call >>

CalcNext == direct_call

CalcSpec == CalcInit /\ [][CalcNext]_vars
(***************************************************************************)
(* Decimal reference values for the properties below.  Micro(x) is the     *)
(* float x rounded to 6 decimal places, in millionths; the reference       *)
(* formulas are exact integer arithmetic on millionths.                    *)
(***************************************************************************)
Micro(x) == x.s * Scaled(x, 2)

ClampInt(x, lo, hi) == IF x < lo THEN lo ELSE IF x > hi THEN hi ELSE x

Unit == 10 ^ 6

\* The table of section 4.1, in millionths
DeltaT(f) ==
      (IF f.uses_zk THEN -30000 ELSE 0) + (IF f.uses_fhe THEN 40000 ELSE 0)
    + (IF f.has_light_client THEN -60000 ELSE 0)
    + (IF f.has_mpc_signers THEN 40000 ELSE 0)
    + (IF f.has_audits THEN -70000 ELSE 0)
    + (IF f.has_formal_specs THEN -80000 ELSE 0)
    + (IF f.multi_chain THEN 30000 ELSE 0)

DeltaE(f) ==
      (IF f.has_light_client THEN -30000 ELSE 0)
    + (IF f.has_timelock THEN -50000 ELSE 0)
    + (IF f.has_formal_specs THEN -20000 ELSE 0)

DeltaO(f) ==
      (IF f.uses_zk THEN 20000 ELSE 0) + (IF f.uses_fhe THEN 30000 ELSE 0)
    + (IF f.has_mpc_signers THEN 50000 ELSE 0)
    + (IF f.has_timelock THEN -30000 ELSE 0)
    + (IF f.has_audits THEN -40000 ELSE 0)
    + (IF f.multi_chain THEN 40000 ELSE 0)

\* 0.08 * clamp(tvlRank / 50, 0, 1) in millionths: 0.0016 per rank up to 50
TvlTerm(tvl_rank) ==
    IF IntLe(tvl_rank, PyInt(0)) THEN 0
    ELSE IF IntLe(PyInt(50), tvl_rank) THEN 80000
    ELSE 1600 * SmallInt(tvl_rank)

RefT(c) == ClampInt(Micro(c.profile.base_technical_risk) + DeltaT(c.flags), 0, Unit)
RefE(c) == ClampInt(Micro(c.profile.base_economic_risk) + DeltaE(c.flags)
                    + TvlTerm(c.tvl_rank), 0, Unit)
RefO(c) == ClampInt(Micro(c.profile.base_operational_risk) + DeltaO(c.flags), 0, Unit)
RefOverall(c) == ClampInt((45 * RefT(c) + 35 * RefE(c) + 20 * RefO(c)) \div 100, 0, Unit)

FrameMicros == << Micro(frame.t), Micro(frame.e), Micro(frame.o), Micro(frame.overall) >>

Scenario1 == [profile |-> Catalog[Aztec], flags |-> AllOff, tvl_rank |-> PyInt(25)]
Scenario2 ==
    [profile |-> Catalog[Soundness],
     flags |-> [AllOff EXCEPT !.has_audits = TRUE, !.has_formal_specs = TRUE,
                              !.has_light_client = TRUE],
     tvl_rank |-> PyInt(1)]
Scenario3 ==
    [profile |-> Catalog[Zama],
     flags |-> [AllOff EXCEPT !.uses_fhe = TRUE, !.has_mpc_signers = TRUE,
                              !.multi_chain = TRUE],
     tvl_rank |-> PyInt(50)]

\* the call has been made / has returned a record
Called == result # None

Returned == Called /\ ~IsRaised(result)

\* C1: for every profile with base risks in [0,1], every flag combination
\* and every integer rank, compute_risk yields t, e, o and overall that
\* are the clamped sums of the table's deltas (plus 0.08 * clamp(tvlRank/50)
\* for e) and the clamped weighted sum 0.45 t + 0.35 e + 0.20 o of the
\* clamped values, and the three scenarios of the specification give the
\* stated numbers and labels.  The equalities are read up to the rounding
\* of float arithmetic: the values agree to the 6th decimal place.
C1_FormulaAndScenarios ==
    Called =>
        /\ Returned
        /\ FrameMicros = << RefT(call), RefE(call), RefO(call), RefOverall(call) >>
        /\ call = Scenario1 =>
              /\ FrameMicros = << 350000, 440000, 300000, 371500 >>
              /\ result.riskLabel = "low"
        /\ call = Scenario2 =>
              /\ FrameMicros = << 70000, 271600, 230000, 172560 >>
              /\ result.riskLabel = "very_low"
        /\ call = Scenario3 =>
              /\ FrameMicros = << 560000, 500000, 500000, 527000 >>
              /\ result.riskLabel = "moderate"

InUnit(x) == FLe(c0_0, x) /\ FLe(x, c1_0)

\* C2: for every profile with base risks in [0,1], all flags and every
\* integer rank, zero and negative ranks included, the call returns four
\* risk numbers that lie in [0,1].
C2_RisksInUnitInterval ==
    Called =>
        /\ Returned
        /\ InUnit(result.technicalRisk)
        /\ InUnit(result.economicRisk)
        /\ InUnit(result.operationalRisk)
        /\ InUnit(result.overallRisk)

\* The label the threshold intervals of section 4.1 give a score
Within(x, lo, hi) == FLe(lo, x) /\ FLt(x, hi)

IntervalLabels(x) ==
    {l \in {"very_low", "low", "moderate", "high", "very_high"} :
        \/ l = "very_low" /\ Within(x, c0_0, c0_25)
        \/ l = "low" /\ Within(x, c0_25, c0_45)
        \/ l = "moderate" /\ Within(x, c0_45, c0_65)
        \/ l = "high" /\ Within(x, c0_65, c0_80)
        \/ l = "very_high" /\ FLe(c0_80, x) /\ FLe(x, c1_0)}

\* C3: riskLabel is decided by the unrounded overall score through the
\* half-open intervals [0,0.25), [0.25,0.45), [0.45,0.65), [0.65,0.80),
\* [0.80,1]: exactly one interval holds the score and riskLabel is its
\* label, so a score of exactly 0.25, 0.45, 0.65, 0.80 is labelled low,
\* moderate, high, very_high.
C3_LabelByIntervals ==
    Returned =>
        /\ IntervalLabels(frame.overall) = {result.riskLabel}
        /\ frame.overall = c0_25 => result.riskLabel = "low"
        /\ frame.overall = c0_45 => result.riskLabel = "moderate"
        /\ frame.overall = c0_65 => result.riskLabel = "high"
        /\ frame.overall = c0_80 => result.riskLabel = "very_high"

\* C3 witness: a call whose unrounded overall score is exactly 0.25.
C3_Witness ==
    /\ Returned
    /\ frame.overall = c0_25
    /\ result.riskLabel = "low"

WithAudits(c) ==
    compute_risk(c.profile, [c.flags EXCEPT !.has_audits = TRUE], c.tvl_rank)

\* C4 as claimed: with hasAudits the returned technicalRisk and
\* operationalRisk are no greater than without, and strictly smaller
\* unless the value without audits is already 0.
C4_Original ==
    (Returned /\ ~call.flags.has_audits) =>
        LET w == WithAudits(call)
        IN  /\ FLe(w.technicalRisk, result.technicalRisk)
            /\ FLe(w.operationalRisk, result.operationalRisk)
            /\ FLt(w.technicalRisk, result.technicalRisk)
                   \/ result.technicalRisk = c0_0
            /\ FLt(w.operationalRisk, result.operationalRisk)
                   \/ result.operationalRisk = c0_0

\* C4 amended: the call with hasAudits returns exactly when the call
\* without it does (both raise at line 98 for a rank beyond the floats);
\* when they return, technicalRisk and operationalRisk with hasAudits are
\* no greater than without, and strictly smaller unless the value returned
\* without audits is 0.0 or the value returned with audits is 1.0.
C4_AuditsMonotone ==
    (Called /\ ~call.flags.has_audits) =>
        \E w \in {WithAudits(call)} :
            /\ IsRaised(w) <=> IsRaised(result)
            /\ Returned =>
                  /\ FLe(w.technicalRisk, result.technicalRisk)
                  /\ FLe(w.operationalRisk, result.operationalRisk)
                  /\ \/ FLt(w.technicalRisk, result.technicalRisk)
                     \/ result.technicalRisk = c0_0
                     \/ w.technicalRisk = c1_0
                  /\ \/ FLt(w.operationalRisk, result.operationalRisk)
                     \/ result.operationalRisk = c0_0
                     \/ w.operationalRisk = c1_0

\* C4 witness: a call without audits whose technical and operational risks
\* both drop strictly when audits are switched on.
C4_Witness ==
    /\ Returned
    /\ ~call.flags.has_audits
    /\ FLt(WithAudits(call).technicalRisk, result.technicalRisk)
    /\ FLt(WithAudits(call).operationalRisk, result.operationalRisk)

\* The economicRisk compute_risk returns for the call c made at rank r
EconomicAt(c, r) ==
    round3(clamped(adjusted(base_totals(c.profile), c.flags, r)).e)

\* C5: for every profile, flags and ranks r1 <= r2 the calls at r1 and at
\* r2 return, the economicRisk returned at r2 is at least the one returned
\* at r1, and from rank 50 on it no longer changes.
C5_TvlRankMonotone ==
    Called =>
        /\ Returned
        /\ \A r2 \in Ranks :
              IntLe(call.tvl_rank, r2) =>
                  /\ ~raises_at_98(r2)
                  /\ \E e2 \in {EconomicAt(call, r2)} :
                        /\ FLe(result.economicRisk, e2)
                        /\ IntLe(PyInt(SatRank), call.tvl_rank) =>
                              result.economicRisk = e2

(***************************************************************************)
(* Properties of the command-line program.                                 *)
(***************************************************************************)
\* the words given to an option on the command line: the word after the
\* option's name, or the part of the word after "name="
ValuesGiven(name) ==
    {argv[i + 1] : i \in {j \in 1 .. Len(argv) - 1 : argv[j] = name}}
    \cup {After(argv[i], Ord("=")) :
             i \in {j \in DOMAIN argv :
                       Has(argv[j], Ord("=")) /\ Before(argv[j], Ord("=")) = name}}

\* the value the word at index i gives to --style, if it gives one: the
\* word is --style or an abbreviation of it, and the value is attached to
\* it with = or is the next word
StyleAt(i) ==
    LET w == classify(argv)[i]
    IN  IF w.kind # "O" \/ w.dest # "style" THEN None
        ELSE IF w.explicit # None THEN w.explicit
        ELSE IF i < Len(argv) THEN Some(argv[i + 1])
        ELSE None

\* the run's style key, the last value given to --style, is not a catalog
\* key
BadStyle ==
    \E i \in DOMAIN argv :
        /\ StyleAt(i) # None
        /\ \A j \in DOMAIN argv : j > i => StyleAt(j) = None
        /\ StyleAt(i)[1] \notin DOMAIN Catalog

\* the results printed: what standard output holds besides usage text
Results(out) == SelectSeq(out, LAMBDA line : line.format # "usage")

\* the run asked for help: the usage text is on standard output
HelpPrinted == \E i \in DOMAIN stdout : stdout[i].format = "usage"

\* parse_args has returned a Namespace whose rank is an integer that is
\* zero or negative: the --tvl-rank value of the run, however it is written
NonPositiveRank ==
    /\ args # None
    /\ ~IsList(args.tvl_rank)
    /\ IntLe(args.tvl_rank, PyInt(0))

\* C6: main never calls compute_risk with a rank below 1, and a run with
\* a zero or negative --tvl-rank calls it with rank 1: the whole result,
\* every score and the label, is that of the same command line with
\* --tvl-rank 1, and it is what the run prints, unless standard output
\* cannot encode the human format and the run prints nothing.
C6_RankCoercedToOne ==
    /\ invoked > 0 =>
          /\ IntLe(PyInt(1), call.tvl_rank)
          /\ Returned => result.tvlRank = call.tvl_rank
    /\ (NonPositiveRank /\ ~IsList(args.style) /\ pc \in {"computed", "exited"}) =>
          /\ invoked = 1
          /\ call.tvl_rank = PyInt(1)
          /\ Returned
          /\ result = compute_risk(Catalog[args.style.str], args_flags(args), PyInt(1))
          /\ pc = "exited" =>
                IF print_raises(args, stdout_encoding)
                THEN exit_code = Some(1) /\ stdout = << >>
                ELSE /\ exit_code = Some(0)
                     /\ Len(stdout) = 1
                     /\ stdout[1].result = result

\* C6 witness: a run started with --tvl-rank=-1_0, which int() reads as
\* -10, has printed the result of a call made with rank 1.
C6_Witness ==
    /\ pc = "exited"
    /\ Returned
    /\ Len(stdout) = 1
    /\ ValuesGiven(TvlRankOption) = {Text(<< "-", "1", "_", "0" >>)}
    /\ args.tvl_rank = PyInt(-10)
    /\ call.tvl_rank = PyInt(1)
    /\ stdout[1].result.tvlRank = PyInt(1)

\* C7: a run whose style key, the last value given to --style, is not a
\* catalog key (and which does not ask for help) ends with a non-zero
\* status, compute_risk never invoked and no result printed; a run whose command line parse_args accepts with a
\* catalog key reaches compute_risk exactly once, which returns, and then
\* prints exactly one result and ends with status 0, whatever the encoding
\* of its standard output.
C7_StyleValidated ==
    pc = "exited" =>
        /\ (BadStyle /\ ~HelpPrinted) =>
              /\ exit_code # None /\ exit_code[1] # 0
              /\ invoked = 0
              /\ Results(stdout) = << >>
        /\ (args # None /\ ~IsList(args.style)) =>
              /\ args.style.str \in DOMAIN Catalog
              /\ invoked = 1
              /\ Returned
              /\ Len(Results(stdout)) = 1
              /\ exit_code = Some(0)

\* C10: through the command line (catalog profiles, every flag
\* combination, every rank of 1 or more) the call returns, the totals t,
\* e, o lie strictly between 0 and 1 before clamping, so clamping changes
\* none of them, the overall score is below 0.65 and the label is never
\* high or very_high.
C10_CatalogStaysInside ==
    (pc # "start" /\ invoked > 0) =>
        /\ Returned
        /\ FLt(c0_0, frame.raw.t) /\ FLt(frame.raw.t, c1_0)
        /\ FLt(c0_0, frame.raw.e) /\ FLt(frame.raw.e, c1_0)
        /\ FLt(c0_0, frame.raw.o) /\ FLt(frame.raw.o, c1_0)
        /\ << frame.t, frame.e, frame.o >> = << frame.raw.t, frame.raw.e, frame.raw.o >>
        /\ FLt(frame.overall, c0_65)
        /\ result.riskLabel \notin {"high", "very_high"}

(***************************************************************************)
(* The label against the reported overall score.                           *)
(***************************************************************************)
Thresholds == {c0_25, c0_45, c0_65, c0_80}

\* C9 as claimed: riskLabel is the label the threshold intervals give the
\* overallRisk reported in the same record (the score rounded to 3 places).
C9_Original ==
    Returned => result.riskLabel \in IntervalLabels(result.overallRisk)

\* C9 amended: riskLabel is the label the threshold intervals give the
\* unrounded overall score.  It is also the label of the reported
\* overallRisk, except when the unrounded score lies less than 0.0005
\* below a threshold and rounds up onto it: then overallRisk equals the
\* threshold and riskLabel is the label of the interval below it.
C9_LabelOfUnroundedScore ==
    Returned =>
        /\ result.riskLabel \in IntervalLabels(frame.overall)
        /\ result.riskLabel \notin IntervalLabels(result.overallRisk) =>
              /\ result.overallRisk \in Thresholds
              /\ FLt(frame.overall, result.overallRisk)
              /\ Micro(result.overallRisk) - Micro(frame.overall) <= 500

\* C9 witness: a record that reports overallRisk 0.45 with the label low.
C9_Witness ==
    /\ Returned
    /\ result.overallRisk = c0_45
    /\ result.riskLabel = "low"
    /\ FLt(frame.overall, c0_45)

====
